---- MODULE Spec2Model ----
(***************************************************************************)
(* Collaborative session manager of the document server:                   *)
(* src/src/websockets/collaborationHandler.ts (socket handlers, room       *)
(* directory, debounced auto-save) together with the document routes it    *)
(* shares the Document collection with.                                    *)
(*                                                                         *)
(* Every handler is one action.  A handler that awaits the document store  *)
(* is split at the await: the request step records the handler's closure   *)
(* (joinsInFlight, savesInFlight, a timer in phase "writing") and the      *)
(* completion step runs the code after the await.                          *)
(***************************************************************************)
EXTENDS Integers, Sequences, FiniteSets, TLC

(* ------------------------------ bounds --------------------------------- *)
\* number of transport connections (socket ids 1..NConns)
NConns == 3
\* number of client requests (handshakes, socket events, REST deletes) in a run
MaxOps == 3
\* number of client requests in a run that starts from a session in progress
MaxSessionOps == 4
\* clock ticks in a run
MaxTicks == 4
MaxShareRequests == 3
MaxRegisterRequests == 3
\* clock resolution: ticks in one debounce interval
TicksPerDebounce == 2
\* how many entries of the colour palette Math.random() may select
NColors == 1

(* ------------------------- program constants --------------------------- *)
AUTO_SAVE_DEBOUNCE_MS == 30000

colors ==
  << "#FF6B6B", "#4ECDC4", "#45B7D1", "#FFA07A",
     "#98D8C8", "#F7DC6F", "#BB8FCE", "#85C1E2" >>

(* --------------------------- value universes --------------------------- *)
None == "none"
NoSocket == 0
Sockets == 1..NConns
Users == {"u1", "u2"}
DocIds == {"d1", "d2"}
Contents == {"Hello", "World"}
Deltas == {"delta1"}
UserNames == {"Ann"}
\* the display names of a connection that joins again under another name
DisplayNames == {"Ann", "Bob"}
Positions == {7}
TickMs == AUTO_SAVE_DEBOUNCE_MS \div TicksPerDebounce

\* The Document collection as seeded: owner and collaborators of each
\* document (POST /api/documents lists the owner among the collaborators; no
\* route changes either field afterwards).
DocOwner == [d \in DocIds |-> IF d = "d1" THEN "u1" ELSE "u2"]
DocCollaborators == [d \in DocIds |-> IF d = "d1" THEN {"u1", "u2"} ELSE {"u2"}]

\* Access tokens a handshake may carry: one signed, unexpired token per user,
\* an expired one and (in the header) one with a bad signature.
ValidTokens == {"jwt-u1", "jwt-u2"}
Tokens == ValidTokens \cup {"jwt-expired"}
TokenSubject == [t \in ValidTokens |-> IF t = "jwt-u1" THEN "u1" ELSE "u2"]

\* A handshake: auth.token ("" when absent) and the words of the
\* Authorization header (<<>> when the header is absent).
Handshakes ==
  [token : Tokens \cup {""},
   authorization : {<<>>, <<"Bearer">>, <<"Bearer", "jwt-u2">>, <<"Bearer", "jwt-forged">>}]

VARIABLES
  conn,            \* per socket: transport state and socket.data.user
  documentRooms,   \* Map documentId -> Map socketId -> SocketUser
  ioRooms,         \* transport rooms: documentId -> subscribed socket ids
  autoSaveTimers,  \* Map documentId -> DocumentAutoSave
  timers,          \* live setTimeout handles with their callback closures
  store,           \* the Document collection: existence and content
  joinsInFlight,   \* join-document handlers awaiting Document.findById
  savesInFlight,   \* save-document handlers awaiting findByIdAndUpdate
  httpServer,      \* the HTTP server of the process: listening, closing, exited
  now,             \* clock, in ms
  ops,             \* client requests the run may still take
  emitted,         \* events emitted by the last step, in emission order
  lastOp,          \* the handler the last step ran
  burst,           \* per document: the current burst of text-change events
  gemini,          \* GeminiService.retryWithBackoff: one call in progress
  shares,          \* share tokens of the documents and the share requests
  auth             \* the User collection and the register requests

\* the state of the collaboration sockets
sockets == << conn, documentRooms, ioRooms, autoSaveTimers, timers, store,
              joinsInFlight, savesInFlight, httpServer, now, ops, emitted, lastOp,
              burst >>

\* the state of the services beside the sockets
services == << gemini, shares, auth >>

vars == << sockets, services >>

(* ------------------------------ helpers -------------------------------- *)
Min(S) == CHOOSE x \in S : \A y \in S : x <= y

RECURSIVE SetToSeq(_)
\* the elements of a finite set of integers in ascending order
SetToSeq(S) == IF S = {} THEN <<>> ELSE <<Min(S)>> \o SetToSeq(S \ {Min(S)})

MapDelete(m, k) == [x \in DOMAIN m \ {k} |-> m[x]]
MapSet(m, k, v) == [x \in DOMAIN m \cup {k} |-> IF x = k THEN v ELSE m[x]]

NoHandshake == [token |-> "", authorization |-> << >>]

Op(op, s, d, content, result) ==
  [op |-> op, socket |-> s, documentId |-> d, content |-> content,
   result |-> result, handshake |-> NoHandshake]

\* socket.emit answering every connection instead of the requesting one
EmitToAll(s, ev, payload) ==
  [i \in 1..NConns |-> [to |-> i, ev |-> ev, payload |-> payload]]

Emit(s, ev, payload) == << [to |-> s, ev |-> ev, payload |-> payload] >>

\* socket.to(room).emit(ev, payload): one packet for every socket subscribed
\* to the transport room except the sender
BroadcastAs(io, s, d, ev, payload) ==
  LET rcpts == SetToSeq(io[d] \ {s})
  IN [i \in 1..Len(rcpts) |-> [to |-> rcpts[i], ev |-> ev, payload |-> payload]]

Broadcast(s, d, ev, payload) == BroadcastAs(ioRooms, s, d, ev, payload)

generateUserColor == {colors[i] : i \in 1..NColors}

\* verifyToken reading the payload without checking the expiry
verifyTokenIgnoringExpiry(token) ==
  IF token \in ValidTokens \cup {"jwt-expired"}
  THEN [ok |-> TRUE, id |-> "u1"]
  ELSE [ok |-> FALSE, id |-> None]

\* verifyToken: jwt.verify returns the payload of a token that is signed with
\* the secret and not expired, and throws otherwise
verifyToken(token) ==
  IF token \in ValidTokens
  THEN [ok |-> TRUE, id |-> TokenSubject[token]]
  ELSE [ok |-> FALSE, id |-> None]

\* socket.handshake.auth.token || socket.handshake.headers.authorization?.split(' ')[1]
HandshakeToken(hs) ==
  IF hs.token # "" THEN hs.token
  ELSE IF Len(hs.authorization) >= 2 THEN hs.authorization[2]
  ELSE ""

\* hasAccess with the collaborator test not comparing the user
hasAccessAnyCollaborator(d, userId) ==
  DocOwner[d] = userId \/ DocCollaborators[d] # {}

hasAccess(d, userId) == DocOwner[d] = userId \/ userId \in DocCollaborators[d]

\* A burst of text-change events for one document: n events (2 stands for two
\* or more), the first at start, the latest at last carrying content, each
\* less than one debounce interval after the one before; writes counts the
\* debounced store writes of timers armed in the burst, the latest of them
\* writing wcontent at time wat; failed records a failed write of such a timer.
EmptyBurst == [n |-> 0, start |-> 0, last |-> 0, content |-> None,
               writes |-> 0, wcontent |-> None, wat |-> 0, failed |-> FALSE]

(* ------------------- GeminiService.retryWithBackoff -------------------- *)
maxRetries == 3
initialDelayMs == 1000
maxDelayMs == 10000

\* text as the sequence of its characters
quota == << "q", "u", "o", "t", "a" >>
rate == << "r", "a", "t", "e" >>
Messages == { << "q", "u", "o", "t", "a" >>,
              << "g", "e", "n", "e", "r", "a", "t", "e" >>,
              << "b", "a", "d" >> }
Statuses == {400, 429, 500, 503}

\* what operation() can throw: an error with or without a status and with or
\* without a message
Errors == {[status |-> st, message |-> m] : st \in Statuses, m \in Messages}
            \cup {[status |-> st] : st \in Statuses}
            \cup {[message |-> m] : m \in Messages}
            \cup {[name |-> "Error"]}

\* how one invocation of operation() settles
Outcomes == {[ok |-> TRUE, value |-> "response"]}
              \cup {[ok |-> FALSE, error |-> e] : e \in Errors}

\* String.prototype.includes
includes(text, pat) ==
  \E i \in 0..(Len(text) - Len(pat)) : SubSeq(text, i + 1, i + Len(pat)) = pat

\* a retry test that retries every error
isRetryableAlways(error) == TRUE

\* isRetryable: status 429, a truthy status >= 500, or a message that
\* includes 'quota' or 'rate'
isRetryable(error) ==
  \/ "status" \in DOMAIN error /\ error.status = 429
  \/ "status" \in DOMAIN error /\ error.status # 0 /\ error.status >= 500
  \/ "message" \in DOMAIN error /\ includes(error.message, quota)
  \/ "message" \in DOMAIN error /\ includes(error.message, rate)

\* Math.min(initialDelayMs * Math.pow(2, attempt - 1), maxDelayMs)
delayMs(attempt) == Min({initialDelayMs * 2 ^ (attempt - 1), maxDelayMs})

GeminiIdle == [pc |-> "idle", attempt |-> 0, outcomes |-> << >>, waits |-> << >>]

\* retryWithBackoff is called: the loop starts and operation() is invoked
RetryWithBackoff ==
  /\ gemini.pc = "idle"
  /\ gemini' = [gemini EXCEPT !.pc = IF 1 <= maxRetries THEN "calling" ELSE "threw",
                              !.attempt = 1]
  /\ UNCHANGED << sockets, shares, auth >>

\* await operation() settles: the value is returned, or the catch block runs
OperationSettled(outcome) ==
  /\ gemini.pc = "calling"
  /\ LET g == [gemini EXCEPT !.outcomes = Append(@, outcome)]
     IN gemini' =
          IF outcome.ok THEN [g EXCEPT !.pc = "returned"]
          ELSE IF ~isRetryable(outcome.error) \/ gemini.attempt = maxRetries
               THEN [g EXCEPT !.pc = "threw"]
               ELSE [g EXCEPT !.pc = "sleeping",
                              !.waits = Append(@, delayMs(gemini.attempt))]
  /\ UNCHANGED << sockets, shares, auth >>

\* await this.sleep(delayMs) resolves: attempt++ and the loop test
SleepDone ==
  /\ gemini.pc = "sleeping"
  /\ gemini' = [gemini EXCEPT !.attempt = @ + 1,
                              !.pc = IF gemini.attempt + 1 <= maxRetries
                                     THEN "calling" ELSE "threw"]
  /\ UNCHANGED << sockets, shares, auth >>

(* ------------- POST /api/documents/:id/share, GET /share/:token -------- *)
\* values crypto.randomBytes(16).toString('hex') may return
ShareTokens == {"a1f0", "b2e9"}

SharesInit == [token |-> [d \in DocIds |-> None],
               inFlight |-> {},
               responses |-> {},
               left |-> MaxShareRequests]

\* Document.findOne({ shareToken: token }): the documents the token resolves
findOneByShareToken(tokens, tk) ==
  {d \in DocIds : store[d].exists /\ tokens[d] = tk}

\* POST /:id/share up to the await on Document.findById
ShareRequest(userId, d) ==
  /\ shares.left > 0
  /\ shares' = [shares EXCEPT
                  !.left = @ - 1,
                  !.inFlight = @ \cup {[id |-> shares.left, user |-> userId,
                                        documentId |-> d, pc |-> "loading",
                                        shareToken |-> None]}]
  /\ UNCHANGED << sockets, gemini, auth >>

\* after findById: 404, 403, the existing token, or generateShareToken and
\* the await on document.save(); load is how findById settled
ShareLoaded(r, load, fresh) ==
  LET d == r.documentId
      rest == shares.inFlight \ {r}
      Respond(status, tk) ==
        [shares EXCEPT !.inFlight = rest,
                       !.responses = @ \cup {[route |-> "share", user |-> r.user,
                                              documentId |-> d, status |-> status,
                                              shareToken |-> tk]}]
  IN /\ r \in shares.inFlight
     /\ r.pc = "loading"
     /\ shares' =
          IF load = "rejected" THEN Respond(500, None)
          ELSE IF ~store[d].exists THEN Respond(404, None)
          ELSE IF DocOwner[d] # r.user THEN Respond(403, None)
          ELSE IF shares.token[d] # None THEN Respond(200, shares.token[d])
          ELSE [shares EXCEPT !.inFlight =
                                rest \cup {[r EXCEPT !.pc = "saving",
                                                     !.shareToken = fresh]}]
     /\ UNCHANGED << sockets, gemini, auth >>

\* document.save() cannot store a token another document holds (unique
\* index) nor write a document that is gone
SaveRejects(tokens, d, tk) ==
  \/ ~store[d].exists
  \/ \E x \in DocIds \ {d} : tokens[x] = tk

\* document.save(): sets the modified path shareToken of the document
Save(tokens, d, tk) == [tokens EXCEPT ![d] = tk]

\* after document.save(): 200 with the token of the request's own copy of
\* the document, or 500; write is how save settled
ShareSaved(r, write) ==
  LET d == r.documentId
      status == IF write = "resolved" THEN 200 ELSE 500
  IN /\ r \in shares.inFlight
     /\ r.pc = "saving"
     /\ write = "resolved" => ~SaveRejects(shares.token, d, r.shareToken)
     /\ shares' =
          [shares EXCEPT
             !.inFlight = @ \ {r},
             !.token = IF write = "resolved" THEN Save(@, d, r.shareToken) ELSE @,
             !.responses = @ \cup {[route |-> "share", user |-> r.user,
                                    documentId |-> d, status |-> status,
                                    shareToken |-> IF write = "resolved"
                                                   THEN r.shareToken ELSE None]}]
     /\ UNCHANGED << sockets, gemini, auth >>

\* GET /share/:token: 200 with the document of the token, or 404
GetShared(tk) ==
  LET found == findOneByShareToken(shares.token, tk)
  IN /\ shares.left > 0
     /\ shares' =
          [shares EXCEPT
             !.left = @ - 1,
             !.responses = @ \cup
               {[route |-> "shared", user |-> None,
                 documentId |-> IF found = {} THEN None ELSE CHOOSE d \in found : TRUE,
                 status |-> IF found = {} THEN 404 ELSE 200,
                 shareToken |-> tk]}]
     /\ UNCHANGED << sockets, gemini, auth >>

(* ------------------------ POST /api/auth/register ---------------------- *)
Emails == {"ann@test.com", "bob@test.com"}

AuthInit == [users |-> {}, inFlight |-> {}, responses |-> {},
             left |-> MaxRegisterRequests]

\* User.findOne({ email })
findOneByEmail(users, email) == {u \in users : u.email = email}

\* how User.create may settle: the user is stored, the insert fails, or the
\* insert is refused because the email is taken; the User schema decides
\* whether a taken email is refused or stored a second time
CreateOutcomes(users, email) ==
  {"resolved", "rejected"} \cup
    (IF findOneByEmail(users, email) # {} THEN {"duplicate"} ELSE {})

\* the request is answered; registered tells whether the email belonged to a
\* user when it was answered, and outcome how the last database call settled
Answer(a, r, status, message, outcome) ==
  [a EXCEPT !.inFlight = @ \ {r},
            !.responses = @ \cup {[id |-> r.id, email |-> r.email,
                                   status |-> status, message |-> message,
                                   outcome |-> outcome,
                                   registered |->
                                     findOneByEmail(auth.users, r.email) # {}]}]

\* the handler up to the await on User.findOne: a body that fails the
\* validation is answered 400 with the errors
Register(email, valid) ==
  LET r == [id |-> auth.left, email |-> IF valid THEN email ELSE "invalid-email",
            pc |-> "finding"]
      a == [auth EXCEPT !.left = @ - 1]
  IN /\ auth.left > 0
     /\ auth' = IF valid THEN [a EXCEPT !.inFlight = @ \cup {r}]
                ELSE Answer(a, r, 400, "errors", None)
     /\ UNCHANGED << sockets, gemini, shares >>

\* after User.findOne: 400 when a user has the email, else the await on
\* User.create; load is how findOne settled
RegisterFound(r, load) ==
  /\ r \in auth.inFlight
  /\ r.pc = "finding"
  /\ auth' =
       IF load = "rejected"
       THEN Answer(auth, r, 500, "Server error during registration", load)
       ELSE IF findOneByEmail(auth.users, r.email) # {}
       THEN Answer(auth, r, 400, "User with this email already exists", load)
       ELSE [auth EXCEPT !.inFlight = (@ \ {r}) \cup {[r EXCEPT !.pc = "creating"]}]
  /\ UNCHANGED << sockets, gemini, shares >>

\* after User.create: sendTokenResponse(user, 201, res), or 500 from the
\* catch block; write is how create settled
RegisterCreated(r, write) ==
  /\ r \in auth.inFlight
  /\ r.pc = "creating"
  /\ write \in CreateOutcomes(auth.users, r.email)
  /\ auth' =
       IF write = "resolved"
       THEN [Answer(auth, r, 201, "token", write) EXCEPT
               !.users = @ \cup {[id |-> r.id, email |-> r.email]}]
       ELSE Answer(auth, r, 500, "Server error during registration", write)
  /\ UNCHANGED << sockets, gemini, shares >>

ServicesInit ==
  /\ gemini = GeminiIdle
  /\ shares = SharesInit
  /\ auth = AuthInit

(* ------------------------------- Init ---------------------------------- *)
Init ==
  /\ conn = [s \in Sockets |-> [state |-> "new", user |-> None]]
  /\ documentRooms = << >>
  /\ ioRooms = [d \in DocIds |-> {}]
  /\ autoSaveTimers = << >>
  /\ timers = {}
  /\ store = [d \in DocIds |-> [exists |-> TRUE, content |-> ""]]
  /\ joinsInFlight = {}
  /\ savesInFlight = {}
  /\ httpServer = "listening"
  /\ now = 0
  /\ ops = MaxOps
  /\ emitted = << >>
  /\ lastOp = Op("init", NoSocket, None, None, None)
  /\ burst = [d \in DocIds |-> EmptyBurst]
  /\ ServicesInit

Connected(s) == conn[s].state = "connected"

(* ----------------------- io.use / io.on('connection') ------------------ *)
Authenticate(s, hs) ==
  LET token == HandshakeToken(hs)
      decoded == verifyToken(token)
      admitted == token # "" /\ decoded.ok
  IN /\ conn[s].state = "new"
     \* a server that is closing accepts no connection
     /\ httpServer = "listening"
     \* socket ids are handed out in connection order
     /\ \A r \in Sockets : r < s => conn[r].state # "new"
     /\ ops > 0
     /\ ops' = ops - 1
     /\ conn' = [conn EXCEPT ![s] =
                   IF admitted THEN [state |-> "connected", user |-> decoded.id]
                   ELSE [state |-> "rejected", user |-> None]]
     /\ emitted' = IF admitted THEN << >>
                   ELSE Emit(s, "connect_error", [message |-> "Authentication error"])
     /\ lastOp' = [Op("connection", s, None, None,
                        IF admitted THEN "admitted" ELSE "rejected")
                     EXCEPT !.handshake = hs]
     /\ UNCHANGED << documentRooms, ioRooms, autoSaveTimers, timers, store,
                     joinsInFlight, savesInFlight, httpServer, now, burst, services >>

(* ------------------------ socket.on('join-document') ------------------- *)
\* up to the await on Document.findById
JoinDocument(s, d, userName) ==
  /\ Connected(s)
  /\ ops > 0
  /\ ops' = ops - 1
  /\ joinsInFlight' = joinsInFlight \cup
                        {[socket |-> s, documentId |-> d, userName |-> userName]}
  /\ emitted' = << >>
  /\ lastOp' = Op("join-document", s, d, None, "awaiting")
  /\ UNCHANGED << conn, documentRooms, ioRooms, autoSaveTimers, timers, store,
                  savesInFlight, httpServer, now, burst, services >>

\* socket.join(documentId): subscribes a connected socket; a socket that has
\* disconnected is not subscribed again (no packet can reach it)
SocketJoin(io, s, d) ==
  IF Connected(s) THEN [io EXCEPT ![d] = @ \cup {s}] ELSE io

\* a room insert that keeps the entry a socket already has
RoomInsertIfAbsent(rooms, s, d, user) ==
  LET users == IF d \in DOMAIN rooms THEN rooms[d] ELSE << >>
  IN IF s \in DOMAIN users THEN rooms ELSE MapSet(rooms, d, MapSet(users, s, user))

\* the room insert of join-document: the room is created when absent and the
\* SocketUser is stored under socket.id
RoomInsert(rooms, s, d, user) ==
  LET users == IF d \in DOMAIN rooms THEN rooms[d] ELSE << >>
  IN MapSet(rooms, d, MapSet(users, s, user))

\* after the await: load is how Document.findById settled
JoinLoaded(j, load) ==
  LET s == j.socket
      d == j.documentId
      userId == conn[s].user
  IN
  /\ j \in joinsInFlight
  /\ httpServer # "exited"
  /\ joinsInFlight' = joinsInFlight \ {j}
  /\ UNCHANGED << conn, autoSaveTimers, timers, store, savesInFlight, httpServer, now, ops, burst, services >>
  /\ IF load = "rejected" THEN
       /\ emitted' = Emit(s, "error", [message |-> "Failed to join document"])
       /\ lastOp' = Op("join-document", s, d, None, "failed")
       /\ UNCHANGED << documentRooms, ioRooms >>
     ELSE IF ~store[d].exists THEN
       /\ emitted' = Emit(s, "error", [message |-> "Document not found"])
       /\ lastOp' = Op("join-document", s, d, None, "not-found")
       /\ UNCHANGED << documentRooms, ioRooms >>
     ELSE IF ~hasAccess(d, userId) THEN
       /\ emitted' = Emit(s, "error", [message |-> "Access denied"])
       /\ lastOp' = Op("join-document", s, d, None, "access-denied")
       /\ UNCHANGED << documentRooms, ioRooms >>
     ELSE
       \E userColor \in generateUserColor :
         LET user == [socketId |-> s, userId |-> userId,
                      userName |-> j.userName, color |-> userColor]
             rooms2 == RoomInsert(documentRooms, s, d, user)
             io2 == SocketJoin(ioRooms, s, d)
             currentUsers == {rooms2[d][x] : x \in DOMAIN rooms2[d] \ {s}}
         IN /\ ioRooms' = io2
            /\ documentRooms' = rooms2
            /\ emitted' =
                 BroadcastAs(io2, s, d, "user-joined",
                             [userId |-> userId, userName |-> j.userName,
                              color |-> userColor])
                 \o Emit(s, "users-list", [users |-> currentUsers])
            \* content records the userName of the entry users.set replaced
            /\ lastOp' = Op("join-document", s, d,
                            IF d \in DOMAIN documentRooms /\ s \in DOMAIN documentRooms[d]
                            THEN documentRooms[d][s].userName ELSE None,
                            "joined")

(* ------------------------- socket.on('text-change') -------------------- *)
\* clearTimeout(handle): an armed timer is removed, a fired one is untouched
clearTimeout(ts, id) == {t \in ts : ~(t.id = id /\ t.phase = "armed")}

\* identity of a new Timeout object: distinct from every live handle and from
\* every handle the registry still refers to
NewTimerId ==
  Min({i \in 1..(Cardinality(timers) + Cardinality(DOMAIN autoSaveTimers) + 1) :
         /\ \A t \in timers : t.id # i
         /\ \A d \in DOMAIN autoSaveTimers : autoSaveTimers[d].timeout # i})

TextChange(s, d, delta, content) ==
  LET userId == conn[s].user
      cleared == IF d \in DOMAIN autoSaveTimers
                 THEN clearTimeout(timers, autoSaveTimers[d].timeout)
                 ELSE timers
      id == NewTimerId
      timeout == [id |-> id, documentId |-> d, content |-> content,
                  userId |-> userId, deadline |-> now + AUTO_SAVE_DEBOUNCE_MS,
                  phase |-> "armed"]
      b == burst[d]
      fresh == b.n = 0 \/ now - b.last >= AUTO_SAVE_DEBOUNCE_MS
  IN
  /\ Connected(s)
  /\ ops > 0
  /\ ops' = ops - 1
  /\ emitted' = Broadcast(s, d, "text-change",
                          [delta |-> delta, content |-> content, userId |-> userId])
  /\ timers' = cleared \cup {timeout}
  /\ autoSaveTimers' = MapSet(autoSaveTimers, d,
                              [documentId |-> d, content |-> content, timeout |-> id])
  /\ burst' = [burst EXCEPT ![d] =
                 IF fresh
                 THEN [EmptyBurst EXCEPT !.n = 1, !.start = now, !.last = now,
                                         !.content = content]
                 ELSE [b EXCEPT !.n = 2, !.last = now, !.content = content]]
  /\ lastOp' = Op("text-change", s, d, content, "relayed")
  /\ UNCHANGED << conn, documentRooms, ioRooms, store, joinsInFlight,
                  savesInFlight, httpServer, now, services >>

\* the setTimeout callback starts: up to the await on findByIdAndUpdate
TimerFire(t) ==
  /\ t \in timers
  /\ httpServer # "exited"
  /\ t.phase = "armed"
  /\ now >= t.deadline
  /\ timers' = (timers \ {t}) \cup {[t EXCEPT !.phase = "writing"]}
  /\ emitted' = << >>
  /\ lastOp' = Op("auto-save", NoSocket, t.documentId, t.content, "fired")
  /\ UNCHANGED << conn, documentRooms, ioRooms, autoSaveTimers, store,
                  joinsInFlight, savesInFlight, httpServer, now, ops, burst, services >>

\* findByIdAndUpdate keeping the content of a document already written to
findByIdAndUpdateOnce(st, d, content) ==
  IF st[d].exists /\ st[d].content = "" THEN [st EXCEPT ![d].content = content]
  ELSE st

\* an update whose filter matches every document
findByIdAndUpdateEvery(st, d, content) ==
  [x \in DOMAIN st |-> IF st[x].exists THEN [st[x] EXCEPT !.content = content]
                        ELSE st[x]]

\* Document.findByIdAndUpdate(id, {content}): updates the document when it
\* exists and resolves (with null when it does not); rejects on a store error
findByIdAndUpdate(st, d, content) ==
  IF st[d].exists THEN [st EXCEPT ![d].content = content] ELSE st

\* the setTimeout callback scheduling itself again when the write failed
TimerWriteDoneRearming(t, write) ==
  LET d == t.documentId
  IN
  /\ t \in timers
  /\ httpServer # "exited"
  /\ t.phase = "writing"
  /\ emitted' = << >>
  /\ IF write = "resolved" THEN
       /\ timers' = timers \ {t}
       /\ store' = findByIdAndUpdate(store, d, t.content)
       /\ autoSaveTimers' = MapDelete(autoSaveTimers, d)
       /\ lastOp' = Op("auto-save", NoSocket, d, t.content, "saved")
     ELSE
       /\ timers' = (timers \ {t}) \cup
                      {[t EXCEPT !.phase = "armed",
                                 !.deadline = now + AUTO_SAVE_DEBOUNCE_MS]}
       /\ lastOp' = Op("auto-save", NoSocket, d, t.content, "failed")
       /\ UNCHANGED << store, autoSaveTimers >>
  /\ UNCHANGED << conn, documentRooms, ioRooms, joinsInFlight, savesInFlight,
                  httpServer, now, ops, burst, services >>

\* the setTimeout callback after the await
TimerWriteDone(t, write) ==
  LET d == t.documentId
      b == burst[d]
      mine == b.n > 0 /\ t.deadline - AUTO_SAVE_DEBOUNCE_MS >= b.start
  IN
  /\ t \in timers
  /\ httpServer # "exited"
  /\ t.phase = "writing"
  /\ timers' = timers \ {t}
  /\ emitted' = << >>
  /\ IF write = "resolved" THEN
       /\ store' = findByIdAndUpdate(store, d, t.content)
       /\ autoSaveTimers' = MapDelete(autoSaveTimers, d)
       /\ burst' = [burst EXCEPT ![d] = IF mine
                                        THEN [b EXCEPT !.writes = 1 + @,
                                                       !.wcontent = t.content,
                                                       !.wat = now]
                                        ELSE b]
       /\ lastOp' = Op("auto-save", NoSocket, d, t.content, "saved")
     ELSE
       /\ burst' = [burst EXCEPT ![d] = IF mine THEN [b EXCEPT !.failed = TRUE] ELSE b]
       /\ lastOp' = Op("auto-save", NoSocket, d, t.content, "failed")
       /\ UNCHANGED << store, autoSaveTimers >>
  /\ UNCHANGED << conn, documentRooms, ioRooms, joinsInFlight, savesInFlight, httpServer, now, ops, services >>

(* ------------------------- socket.on('cursor-move') -------------------- *)
\* cursor-move attributing the event to a name the client supplied at join
CursorMoveTrustingClient(s, d, position) ==
  /\ Connected(s)
  /\ ops > 0
  /\ ops' = ops - 1
  /\ emitted' =
       IF d \in DOMAIN documentRooms /\ s \in DOMAIN documentRooms[d]
       THEN LET user == documentRooms[d][s]
            IN Broadcast(s, d, "cursor-move",
                         [userId |-> user.userName, userName |-> user.userName,
                          color |-> user.color, position |-> position])
       ELSE << >>
  /\ lastOp' = Op("cursor-move", s, d, None,
                  IF d \in DOMAIN documentRooms /\ s \in DOMAIN documentRooms[d]
                  THEN "relayed" ELSE "dropped")
  /\ UNCHANGED << conn, documentRooms, ioRooms, autoSaveTimers, timers, store,
                  joinsInFlight, savesInFlight, httpServer, now, burst, services >>

CursorMove(s, d, position) ==
  /\ Connected(s)
  /\ ops > 0
  /\ ops' = ops - 1
  /\ emitted' =
       IF d \in DOMAIN documentRooms /\ s \in DOMAIN documentRooms[d]
       THEN LET user == documentRooms[d][s]
            IN Broadcast(s, d, "cursor-move",
                         [userId |-> user.userId, userName |-> user.userName,
                          color |-> user.color, position |-> position])
       ELSE << >>
  /\ lastOp' = Op("cursor-move", s, d, None,
                  IF d \in DOMAIN documentRooms /\ s \in DOMAIN documentRooms[d]
                  THEN "relayed" ELSE "dropped")
  /\ UNCHANGED << conn, documentRooms, ioRooms, autoSaveTimers, timers, store,
                  joinsInFlight, savesInFlight, httpServer, now, burst, services >>

(* ------------------------ socket.on('save-document') ------------------- *)
\* up to the await on Document.findByIdAndUpdate
SaveDocument(s, d, content) ==
  /\ Connected(s)
  /\ ops > 0
  /\ ops' = ops - 1
  /\ savesInFlight' = savesInFlight \cup
                        {[socket |-> s, documentId |-> d, content |-> content]}
  /\ emitted' = << >>
  /\ lastOp' = Op("save-document", s, d, content, "awaiting")
  /\ UNCHANGED << conn, documentRooms, ioRooms, autoSaveTimers, timers, store,
                  joinsInFlight, httpServer, now, burst, services >>

\* after the await: write is how findByIdAndUpdate settled
SaveDone(sv, write) ==
  LET s == sv.socket
      d == sv.documentId
  IN
  /\ sv \in savesInFlight
  /\ httpServer # "exited"
  /\ savesInFlight' = savesInFlight \ {sv}
  /\ IF write = "resolved" THEN
       /\ store' = findByIdAndUpdate(store, d, sv.content)
       /\ emitted' = Emit(s, "document-saved", [success |-> TRUE, timestamp |-> now])
                     \o Broadcast(s, d, "document-saved",
                                  [success |-> TRUE, timestamp |-> now])
       /\ lastOp' = Op("save-document", s, d, sv.content, "saved")
     ELSE
       /\ emitted' = Emit(s, "document-saved", [success |-> FALSE])
       /\ lastOp' = Op("save-document", s, d, sv.content, "failed")
       /\ UNCHANGED store
  /\ UNCHANGED << conn, documentRooms, ioRooms, autoSaveTimers, timers,
                  joinsInFlight, httpServer, now, ops, burst, services >>

(* ------------------------------ handleUserLeave ------------------------ *)
\* handleUserLeave without the clean-up of the empty room
handleUserLeaveKeepingRoom(rooms, io, s, d) ==
  LET hasUser == d \in DOMAIN rooms /\ s \in DOMAIN rooms[d]
  IN [rooms |-> IF hasUser THEN MapSet(rooms, d, MapDelete(rooms[d], s)) ELSE rooms,
      emitted |-> IF hasUser
                  THEN BroadcastAs(io, s, d, "user-left",
                                   [userId |-> rooms[d][s].userId,
                                    userName |-> rooms[d][s].userName])
                  ELSE << >>,
      io |-> [io EXCEPT ![d] = @ \ {s}]]

\* the rooms, the transport subscriptions and the packets after
\* handleUserLeave(socket, documentId) ran on rooms and io
handleUserLeave(rooms, io, s, d) ==
  LET hasRoom == d \in DOMAIN rooms
      hasUser == hasRoom /\ s \in DOMAIN rooms[d]
      users == IF hasUser THEN MapDelete(rooms[d], s)
               ELSE IF hasRoom THEN rooms[d] ELSE << >>
  IN [rooms |-> IF ~hasRoom THEN rooms
                ELSE IF DOMAIN users = {} THEN MapDelete(rooms, d)
                ELSE MapSet(rooms, d, users),
      emitted |-> IF hasUser
                  THEN BroadcastAs(io, s, d, "user-left",
                                   [userId |-> rooms[d][s].userId,
                                    userName |-> rooms[d][s].userName])
                  ELSE << >>,
      io |-> [io EXCEPT ![d] = @ \ {s}]]

(* ------------------------ socket.on('leave-document') ------------------ *)
LeaveDocument(s, d) ==
  LET left == handleUserLeave(documentRooms, ioRooms, s, d)
  IN /\ Connected(s)
     /\ ops > 0
     /\ ops' = ops - 1
     /\ documentRooms' = left.rooms
     /\ ioRooms' = left.io
     /\ emitted' = left.emitted
     /\ lastOp' = Op("leave-document", s, d, None,
                     IF Len(left.emitted) > 0 \/ left.rooms # documentRooms
                     THEN "left" ELSE "absent")
     /\ UNCHANGED << conn, autoSaveTimers, timers, store, joinsInFlight,
                     savesInFlight, httpServer, now, burst, services >>

(* -------------------------- socket.on('disconnect') -------------------- *)
RECURSIVE LeaveAll(_, _, _, _)
\* documentRooms.forEach: handleUserLeave for every room that lists the socket
LeaveAll(rooms, io, s, ds) ==
  IF ds = <<>> THEN [rooms |-> rooms, io |-> io, emitted |-> << >>]
  ELSE LET d == Head(ds)
           one == IF d \in DOMAIN rooms /\ s \in DOMAIN rooms[d]
                  THEN handleUserLeave(rooms, io, s, d)
                  ELSE [rooms |-> rooms, io |-> io, emitted |-> << >>]
           rest == LeaveAll(one.rooms, one.io, s, Tail(ds))
       IN [rooms |-> rest.rooms, io |-> rest.io,
           emitted |-> one.emitted \o rest.emitted]

\* autoSaveTimers.forEach without the clearTimeout
ClearNone(ts, saves) == ts

RECURSIVE ClearAll(_, _)
\* autoSaveTimers.forEach: clearTimeout(save.timeout)
ClearAll(ts, saves) ==
  IF saves = {} THEN ts
  ELSE LET sv == CHOOSE x \in saves : TRUE
       IN ClearAll(clearTimeout(ts, sv.timeout), saves \ {sv})

DocOrder == << "d1", "d2" >>

Disconnect(s) ==
  LET \* the transport has left every room before the handler runs
      io0 == [d \in DocIds |-> ioRooms[d] \ {s}]
      left == LeaveAll(documentRooms, io0, s, DocOrder)
  IN /\ Connected(s)
     /\ ops > 0
     /\ ops' = ops - 1
     /\ conn' = [conn EXCEPT ![s].state = "disconnected"]
     /\ documentRooms' = left.rooms
     /\ ioRooms' = left.io
     /\ emitted' = left.emitted
     /\ timers' = ClearAll(timers, {autoSaveTimers[d] : d \in DOMAIN autoSaveTimers})
     /\ autoSaveTimers' = << >>
     /\ lastOp' = Op("disconnect", s, None, None, "closed")
     /\ UNCHANGED << store, joinsInFlight, savesInFlight, httpServer, now, burst, services >>

(* ------------------------ DELETE /api/documents/:id -------------------- *)
DeleteDocument(userId, d) ==
  /\ httpServer = "listening"
  /\ store[d].exists
  /\ DocOwner[d] = userId
  /\ ops > 0
  /\ ops' = ops - 1
  /\ store' = [store EXCEPT ![d].exists = FALSE]
  /\ emitted' = << >>
  /\ lastOp' = Op("delete-document", NoSocket, d, None, "deleted")
  /\ UNCHANGED << conn, documentRooms, ioRooms, autoSaveTimers, timers,
                  joinsInFlight, savesInFlight, httpServer, now, burst, services >>

(* ------------------- events that arrive without a payload ------------- *)
\* process.on('unhandledRejection'): httpServer.close(...) stops the server
\* from accepting connections; the process exits once the open ones are gone
unhandledRejection(server) == IF server = "listening" THEN "closing" ELSE server

\* join-document with data undefined: the destructuring in the try block
\* throws, the catch block throws again on data.documentId before its
\* socket.emit, and the promise of the handler rejects with nobody awaiting it
JoinDocumentNoData(s) ==
  /\ Connected(s)
  /\ ops > 0
  /\ ops' = ops - 1
  /\ httpServer' = unhandledRejection(httpServer)
  /\ emitted' = << >>
  /\ lastOp' = Op("join-document", s, None, None, "threw")
  /\ UNCHANGED << conn, documentRooms, ioRooms, autoSaveTimers, timers, store,
                  joinsInFlight, savesInFlight, now, burst, services >>

\* save-document with data undefined: as for join-document
SaveDocumentNoData(s) ==
  /\ Connected(s)
  /\ ops > 0
  /\ ops' = ops - 1
  /\ httpServer' = unhandledRejection(httpServer)
  /\ emitted' = << >>
  /\ lastOp' = Op("save-document", s, None, None, "threw")
  /\ UNCHANGED << conn, documentRooms, ioRooms, autoSaveTimers, timers, store,
                  joinsInFlight, savesInFlight, now, burst, services >>

\* the callback of httpServer.close: process.exit(1) when the last connection
\* has gone; no pending handler or timer of the process runs after it, and
\* the Document collection stays
ProcessExit ==
  /\ httpServer = "closing"
  /\ \A s \in Sockets : ~Connected(s)
  /\ httpServer' = "exited"
  /\ emitted' = << >>
  /\ lastOp' = Op("exit", NoSocket, None, None, None)
  /\ UNCHANGED << conn, documentRooms, ioRooms, autoSaveTimers, timers, store,
                  joinsInFlight, savesInFlight, now, ops, burst, services >>

(* --------------------------------- clock ------------------------------- *)
Tick ==
  /\ now < MaxTicks * TickMs
  /\ now' = now + TickMs
  /\ emitted' = << >>
  /\ lastOp' = Op("tick", NoSocket, None, None, None)
  /\ UNCHANGED << conn, documentRooms, ioRooms, autoSaveTimers, timers, store,
                  joinsInFlight, savesInFlight, httpServer, ops, burst, services >>

Settled == {"resolved", "rejected"}

Next ==
  \/ \E s \in Sockets, hs \in Handshakes : Authenticate(s, hs)
  \/ \E s \in Sockets, d \in DocIds, n \in UserNames : JoinDocument(s, d, n)
  \/ \E j \in joinsInFlight, r \in Settled : JoinLoaded(j, r)
  \/ \E s \in Sockets, d \in DocIds, dl \in Deltas, c \in Contents : TextChange(s, d, dl, c)
  \/ \E t \in timers : TimerFire(t)
  \/ \E t \in timers, r \in Settled : TimerWriteDone(t, r)
  \/ \E s \in Sockets, d \in DocIds, p \in Positions : CursorMove(s, d, p)
  \/ \E s \in Sockets, d \in DocIds, c \in Contents : SaveDocument(s, d, c)
  \/ \E sv \in savesInFlight, r \in Settled : SaveDone(sv, r)
  \/ \E s \in Sockets, d \in DocIds : LeaveDocument(s, d)
  \/ \E s \in Sockets : Disconnect(s)
  \/ \E u \in Users, d \in DocIds : DeleteDocument(u, d)
  \/ \E s \in Sockets : JoinDocumentNoData(s)
  \/ \E s \in Sockets : SaveDocumentNoData(s)
  \/ ProcessExit
  \/ Tick

Spec == Init /\ [][Next]_vars

(* A session in progress: every socket has passed the handshake and may    *)
(* still make budget requests.                                              *)
Session(budget) ==
  /\ conn \in [Sockets -> {[state |-> "connected", user |-> u] : u \in Users}]
  /\ documentRooms = << >>
  /\ ioRooms = [d \in DocIds |-> {}]
  /\ autoSaveTimers = << >>
  /\ timers = {}
  /\ store = [d \in DocIds |-> [exists |-> TRUE, content |-> ""]]
  /\ joinsInFlight = {}
  /\ savesInFlight = {}
  /\ httpServer = "listening"
  /\ now = 0
  /\ ops = budget
  /\ emitted = << >>
  /\ lastOp = Op("init", NoSocket, None, None, None)
  /\ burst = [d \in DocIds |-> EmptyBurst]
  /\ ServicesInit

InitSession == Session(MaxSessionOps)

NextRooms ==
  \/ \E s \in Sockets, d \in DocIds, n \in UserNames : JoinDocument(s, d, n)
  \/ \E j \in joinsInFlight, r \in Settled : JoinLoaded(j, r)
  \/ \E s \in Sockets, d \in DocIds, dl \in Deltas : TextChange(s, d, dl, "Hello")
  \/ \E s \in Sockets, d \in DocIds, p \in Positions : CursorMove(s, d, p)
  \/ \E s \in Sockets, d \in DocIds : SaveDocument(s, d, "World")
  \/ \E sv \in savesInFlight, r \in Settled : SaveDone(sv, r)
  \/ \E s \in Sockets, d \in DocIds : LeaveDocument(s, d)
  \/ \E s \in Sockets : Disconnect(s)

SpecRooms == InitSession /\ [][NextRooms]_vars

\* the debounce timers of a session in progress
NextTimers ==
  \/ \E s \in Sockets, d \in DocIds, dl \in Deltas, c \in Contents : TextChange(s, d, dl, c)
  \/ \E t \in timers : TimerFire(t)
  \/ \E t \in timers, r \in Settled : TimerWriteDone(t, r)
  \/ \E s \in Sockets, d \in DocIds : SaveDocument(s, d, "World")
  \/ \E sv \in savesInFlight, r \in Settled : SaveDone(sv, r)
  \/ \E s \in Sockets : Disconnect(s)
  \/ Tick

InitTimers == Session(MaxOps)

SpecTimers == InitTimers /\ [][NextTimers]_vars

\* the relays of a session in progress: joins, edits, cursors and departures
NextRelay ==
  \/ \E s \in Sockets, d \in DocIds, n \in UserNames : JoinDocument(s, d, n)
  \/ \E j \in joinsInFlight, r \in Settled : JoinLoaded(j, r)
  \/ \E s \in Sockets, d \in DocIds, dl \in Deltas : TextChange(s, d, dl, "Hello")
  \/ \E s \in Sockets, d \in DocIds, p \in Positions : CursorMove(s, d, p)
  \/ \E s \in Sockets, d \in DocIds : LeaveDocument(s, d)

SpecRelay == InitTimers /\ [][NextRelay]_vars

\* the debounce timers of a session with no disconnect, no explicit save and
\* no failing write
NextDebounce ==
  \/ \E s \in Sockets, d \in DocIds, dl \in Deltas, c \in Contents : TextChange(s, d, dl, c)
  \/ \E t \in timers : TimerFire(t)
  \/ \E t \in timers : TimerWriteDone(t, "resolved")
  \/ Tick

SpecDebounce == InitTimers /\ [][NextDebounce]_vars

\* joins of one document under a choice of names, and departures, of a
\* session in progress
NextRejoin ==
  \/ \E s \in Sockets, n \in DisplayNames : JoinDocument(s, "d1", n)
  \/ \E j \in joinsInFlight : JoinLoaded(j, "resolved")
  \/ \E s \in Sockets, d \in DocIds : LeaveDocument(s, d)
  \/ \E s \in Sockets : Disconnect(s)

SpecRejoin == InitTimers /\ [][NextRejoin]_vars

\* one call of retryWithBackoff
NextRetry ==
  \/ RetryWithBackoff
  \/ \E o \in Outcomes : OperationSettled(o)
  \/ SleepDone

SpecRetry == Init /\ [][NextRetry]_vars

\* the share routes
NextShare ==
  \/ \E u \in Users, d \in DocIds : ShareRequest(u, d)
  \/ \E r \in shares.inFlight, l \in Settled, tk \in ShareTokens : ShareLoaded(r, l, tk)
  \/ \E r \in shares.inFlight, w \in Settled : ShareSaved(r, w)
  \/ \E tk \in ShareTokens : GetShared(tk)

SpecShare == Init /\ [][NextShare]_vars

\* the register route
NextRegister ==
  \/ \E e \in Emails, v \in BOOLEAN : Register(e, v)
  \/ \E r \in auth.inFlight, l \in Settled : RegisterFound(r, l)
  \/ \E r \in auth.inFlight, w \in {"resolved", "rejected", "duplicate"} :
       RegisterCreated(r, w)

SpecRegister == Init /\ [][NextRegister]_vars

TypeOK ==
  /\ ops \in 0..(MaxOps + MaxSessionOps)
  /\ now \in 0..(MaxTicks * TickMs)
  /\ DOMAIN documentRooms \subseteq DocIds
  /\ DOMAIN autoSaveTimers \subseteq DocIds
  /\ httpServer \in {"listening", "closing", "exited"}

(***************************************************************************)
(*                               Properties                                *)
(***************************************************************************)
\* the member set of document d's room in the Room Directory
Members(d) == IF d \in DOMAIN documentRooms THEN DOMAIN documentRooms[d] ELSE {}

\* the packets of event ev the last step emitted to socket s
Packets(s, ev) == {i \in 1..Len(emitted) : emitted[i].to = s /\ emitted[i].ev = ev}

\* C1: a text-change sent by a member M of a room with at least two members
\* is delivered exactly once, with M's content and userId, to each of the
\* other members, and not at all to M or to a connection outside the room.
C1_TextChangeFanout ==
  \A d \in DocIds :
    ( /\ lastOp.op = "text-change"
      /\ lastOp.documentId = d
      /\ lastOp.socket \in Members(d)
      /\ Cardinality(Members(d)) >= 2 )
    => \A s \in Sockets :
         IF s \in Members(d) \ {lastOp.socket}
         THEN /\ Cardinality(Packets(s, "text-change")) = 1
              /\ \A i \in Packets(s, "text-change") :
                   /\ emitted[i].payload.content = lastOp.content
                   /\ emitted[i].payload.userId = conn[lastOp.socket].user
         ELSE Packets(s, "text-change") = {}

\* user u is neither the owner nor a collaborator of document d
NoAccess(d, u) == DocOwner[d] # u /\ u \notin DocCollaborators[d]

\* a join-document of a user without access to an existing document settled
DeniedJoinSettled ==
  /\ lastOp.op = "join-document"
  /\ lastOp.result \notin {"awaiting", "threw"}
  /\ store[lastOp.documentId].exists
  /\ NoAccess(lastOp.documentId, conn[lastOp.socket].user)

\* no roster lists a user without access to its document
RosterHasAccess ==
  \A d \in DocIds : \A s \in Members(d) : ~NoAccess(d, documentRooms[d][s].userId)

\* C2 as stated: every join-document(D) of a user who is neither owner nor
\* collaborator of D is answered with the access-denied error, and no roster
\* of D ever holds a Presence of that user.
C2_DeniedAlwaysAccessDenied ==
  /\ RosterHasAccess
  /\ DeniedJoinSettled =>
       emitted = Emit(lastOp.socket, "error", [message |-> "Access denied"])

\* C2 amended: such a join-document is answered with exactly one error event,
\* "Access denied" when the store load returned the document and "Failed to
\* join document" when the load raised, and no roster of D ever holds a
\* Presence of that user.
C2_AccessControl ==
  /\ RosterHasAccess
  /\ DeniedJoinSettled =>
       emitted = Emit(lastOp.socket, "error",
                      [message |-> IF lastOp.result = "failed"
                                   THEN "Failed to join document"
                                   ELSE "Access denied"])

C2_Witness == DeniedJoinSettled /\ lastOp.result = "access-denied"

\* the armed timers of document d
Armed(d) == {t \in timers : t.documentId = d /\ t.phase = "armed"}

\* C3: the text-change events of one burst for a document (each less than a
\* debounce interval after the one before) produce exactly one debounced store
\* write: never a second one, the one write carries the content of the last
\* event and happens no earlier than one debounce interval after it, and until
\* it has happened a timer holding that content stays scheduled for it.
C3_DebounceOneWrite ==
  \A d \in DocIds :
    LET b == burst[d] IN
    b.n > 0 =>
      /\ b.writes <= 1
      /\ b.writes >= 1 =>
           /\ b.wcontent = b.content
           /\ b.wat >= b.last + AUTO_SAVE_DEBOUNCE_MS
      /\ (b.writes = 0 /\ ~b.failed) =>
           \E t \in timers :
             /\ t.documentId = d
             /\ t.content = b.content
             /\ t.deadline = b.last + AUTO_SAVE_DEBOUNCE_MS

\* C4: at most one armed debounce timer per document
C4_OneArmedTimerPerDocument ==
  \A d \in DocIds : Cardinality(Armed(d)) <= 1

\* C5: when connection B joins document D whose room has the member set S
\* (B not in S), every connection of S gets exactly one user-joined carrying
\* B's userId, displayName and color, B gets no user-joined, and B gets one
\* users-list holding exactly the Presences of S; the user-joined packets are
\* emitted before the users-list.
C5_JoinNotifications ==
  [][ LET B == lastOp'.socket
          d == lastOp'.documentId
          S == Members(d)
          joined == {i \in 1..Len(emitted') : emitted'[i].ev = "user-joined"}
          lists == {i \in 1..Len(emitted') : emitted'[i].ev = "users-list"}
      IN ( /\ lastOp'.op = "join-document"
           /\ lastOp'.result = "joined"
           /\ B \notin S )
         => /\ \A s \in S :
                 /\ Cardinality({i \in joined : emitted'[i].to = s}) = 1
                 /\ \A i \in joined :
                      emitted'[i].payload =
                        [userId |-> conn[B].user,
                         userName |-> documentRooms'[d][B].userName,
                         color |-> documentRooms'[d][B].color]
            /\ \A i \in joined : emitted'[i].to \in S
            /\ Cardinality(lists) = 1
            /\ \A i \in lists :
                 /\ emitted'[i].to = B
                 /\ emitted'[i].payload.users = {documentRooms[d][x] : x \in S}
                 /\ \A k \in joined : k < i
    ]_vars

\* every room of the Room Directory has a member
NoEmptyRoom == \A d \in DOMAIN documentRooms : DOMAIN documentRooms[d] # {}

\* C6: no room of the Room Directory is ever empty; a room appears only in the
\* join step that inserts its first member and disappears in the leave or
\* disconnect step that removes its last member.
C6_NoEmptyRoom ==
  /\ NoEmptyRoom
  /\ [][ /\ NoEmptyRoom'
         /\ \A d \in DocIds :
              /\ (d \notin DOMAIN documentRooms /\ d \in DOMAIN documentRooms') =>
                   /\ lastOp'.op = "join-document"
                   /\ lastOp'.result = "joined"
                   /\ lastOp'.documentId = d
                   /\ DOMAIN documentRooms'[d] = {lastOp'.socket}
              /\ (d \in DOMAIN documentRooms /\ d \notin DOMAIN documentRooms') =>
                   /\ lastOp'.op \in {"leave-document", "disconnect"}
                   /\ DOMAIN documentRooms[d] = {lastOp'.socket}
              /\ ( /\ lastOp'.op \in {"leave-document", "disconnect"}
                   /\ d \in DOMAIN documentRooms
                   /\ DOMAIN documentRooms[d] = {lastOp'.socket}
                   /\ lastOp'.op = "leave-document" => lastOp'.documentId = d )
                 => d \notin DOMAIN documentRooms'
    ]_vars

\* a leave-document removed the last member and the room is gone
C6_Witness ==
  /\ lastOp.op = "leave-document"
  /\ lastOp.result = "left"
  /\ lastOp.documentId \notin DOMAIN documentRooms

\* C7: a room exists only while one of its members has neither left nor
\* disconnected, and the connection whose join creates the room (it is the
\* only member afterwards) gets an empty users-list.
C7_RoomCleanup ==
  /\ \A d \in DOMAIN documentRooms : \E s \in DOMAIN documentRooms[d] : Connected(s)
  /\ ( /\ lastOp.op = "join-document"
       /\ lastOp.result = "joined"
       /\ Members(lastOp.documentId) = {lastOp.socket} )
     => \A i \in Packets(lastOp.socket, "users-list") : emitted[i].payload.users = {}

\* the token the server reads from a handshake passes verification
TokenVerifies(hs) ==
  LET token == IF hs.token # "" THEN hs.token
               ELSE IF Len(hs.authorization) >= 2 THEN hs.authorization[2]
               ELSE ""
  IN token \in {"jwt-u1", "jwt-u2"}

\* nothing in the session state belongs to socket s
NoTrace(s) ==
  /\ conn[s].user = None
  /\ \A d \in DocIds : s \notin Members(d) /\ s \notin ioRooms[d]
  /\ \A j \in joinsInFlight : j.socket # s
  /\ \A sv \in savesInFlight : sv.socket # s

\* C8: a handshake with no token or with a token that fails verification is
\* rejected with an authentication error; the connection stays rejected,
\* gets no identity, and no event of it is ever handled: no room, presence,
\* in-flight request or store change is made on its behalf.
C8_UnauthenticatedRejected ==
  [][ /\ (lastOp'.op = "connection" /\ ~TokenVerifies(lastOp'.handshake)) =>
           /\ conn'[lastOp'.socket].state = "rejected"
           /\ emitted' = Emit(lastOp'.socket, "connect_error",
                              [message |-> "Authentication error"])
           /\ UNCHANGED << documentRooms, ioRooms, autoSaveTimers, timers, store,
                           joinsInFlight, savesInFlight >>
      /\ \A s \in Sockets :
           /\ conn'[s].state = "rejected" =>
                /\ NoTrace(s)'
                /\ lastOp'.socket = s => lastOp'.op = "connection"
           /\ conn[s].state = "rejected" =>
                /\ conn'[s] = conn[s]
                /\ lastOp'.socket # s
    ]_vars

\* a handshake with an expired token has just been rejected
C8_Witness ==
  /\ lastOp.op = "connection"
  /\ lastOp.result = "rejected"
  /\ lastOp.handshake.token = "jwt-expired"
  /\ \E s \in Sockets : s # lastOp.socket /\ Connected(s)

\* C9: an explicit save-document(D, C) writes C without involving the
\* debounce timers; when the write succeeds the sender and every other member
\* of D's room each get one document-saved{success: true}; when it fails the
\* sender alone gets document-saved{success: false} and the store is unchanged.
C9_ExplicitSave ==
  [][ LET s == lastOp'.socket
          d == lastOp'.documentId
          saved == {i \in 1..Len(emitted') : emitted'[i].ev = "document-saved"}
      IN lastOp'.op = "save-document" =>
           /\ UNCHANGED << autoSaveTimers, timers >>
           /\ lastOp'.result = "awaiting" => emitted' = << >> /\ store' = store
           /\ lastOp'.result = "saved" =>
                /\ store'[d].content = lastOp'.content
                /\ saved = 1..Len(emitted')
                /\ \A i \in saved : emitted'[i].payload.success
                /\ \A m \in Sockets :
                     Cardinality({i \in saved : emitted'[i].to = m}) =
                       IF m \in Members(d) \cup {s} THEN 1 ELSE 0
           /\ lastOp'.result = "failed" =>
                /\ emitted' = Emit(s, "document-saved", [success |-> FALSE])
                /\ store' = store
    ]_vars

\* C10: right after a save-document(D, C) acknowledged with success: true,
\* loading D from the store yields content C.
C10_SaveThenRead ==
  (lastOp.op = "save-document" /\ lastOp.result = "saved") =>
    /\ store[lastOp.documentId].exists
    /\ store[lastOp.documentId].content = lastOp.content

\* the results of a join-document that failed
JoinFailures == {"not-found", "access-denied", "failed"}

\* C11: a join-document that fails (document not found, access denied or the
\* store load raising) emits exactly one error event, to the requesting
\* connection only, and leaves the Room Directory, the transport room
\* subscriptions and the PendingSave registry with its timers as they were;
\* a join of a missing document or of a user without access always fails.
C11_FailedJoinFrame ==
  [][ LET s == lastOp'.socket
          d == lastOp'.documentId
      IN (lastOp'.op = "join-document" /\ lastOp'.result \notin {"awaiting", "threw"}) =>
           /\ (~store[d].exists \/ NoAccess(d, conn[s].user)) =>
                lastOp'.result \in JoinFailures
           /\ lastOp'.result \in JoinFailures =>
                /\ Len(emitted') = 1
                /\ emitted'[1].to = s
                /\ emitted'[1].ev = "error"
                /\ UNCHANGED << documentRooms, ioRooms, autoSaveTimers, timers >>
    ]_vars

\* a join was denied while a room existed
C11_Witness ==
  /\ lastOp.op = "join-document"
  /\ lastOp.result = "access-denied"
  /\ documentRooms # << >>

\* C12: leave-document(D) by connection c removes c's Presence from D's
\* room and changes no other roster; when a Presence was removed each
\* remaining member gets exactly one user-left with the userId and displayName
\* of that Presence and nobody else gets anything; when c had no Presence in
\* D nothing is emitted and the Room Directory is unchanged.
C12_LeaveDocument ==
  [][ LET c == lastOp'.socket
          d == lastOp'.documentId
          had == c \in Members(d)
          left == {i \in 1..Len(emitted') : emitted'[i].ev = "user-left"}
      IN lastOp'.op = "leave-document" =>
           /\ \A x \in DocIds \ {d} :
                x \in DOMAIN documentRooms' <=> x \in DOMAIN documentRooms
           /\ \A x \in DOMAIN documentRooms' :
                documentRooms'[x] =
                  IF x = d THEN [m \in DOMAIN documentRooms[x] \ {c} |->
                                   documentRooms[x][m]]
                  ELSE documentRooms[x]
           /\ had =>
                /\ left = 1..Len(emitted')
                /\ \A i \in left :
                     emitted'[i].payload =
                       [userId |-> documentRooms[d][c].userId,
                        userName |-> documentRooms[d][c].userName]
                /\ \A m \in Sockets :
                     Cardinality({i \in left : emitted'[i].to = m}) =
                       IF m \in Members(d) \ {c} THEN 1 ELSE 0
           /\ ~had => emitted' = << >> /\ documentRooms' = documentRooms
    ]_vars

\* C13: a connection that has disconnected is in no room's member mapping,
\* in the state its disconnect leaves and in every later state, also when one
\* of its join-document requests was awaiting the store load at the disconnect.
C13_DisconnectedInNoRoom ==
  \A d \in DocIds : \A s \in Members(d) : conn[s].state # "disconnected"

\* the timers the PendingSave registry refers to
Registered == {t \in timers : \E d \in DOMAIN autoSaveTimers :
                                 autoSaveTimers[d].timeout = t.id}

C15_FailedWriteNoRetry ==
  [][ LET d == lastOp'.documentId
          writing == {t \in timers : /\ t.phase = "writing"
                                     /\ t.documentId = d
                                     /\ t.content = lastOp'.content}
      IN /\ (lastOp'.op = "auto-save" /\ lastOp'.result = "failed") =>
              /\ store' = store
              /\ emitted' = << >>
              /\ autoSaveTimers' = autoSaveTimers
              /\ \E t \in writing : timers' = timers \ {t}
         /\ lastOp'.op = "text-change" =>
              \E t \in timers' \ timers :
                /\ t.phase = "armed"
                /\ t.documentId = d
                /\ t.content = lastOp'.content
                /\ t.deadline = now + AUTO_SAVE_DEBOUNCE_MS
                /\ autoSaveTimers'[d].timeout = t.id
         /\ (lastOp'.op = "auto-save" /\ lastOp'.result = "fired") =>
              \E t \in timers :
                /\ t.phase = "armed"
                /\ t.documentId = d
                /\ t.content = lastOp'.content
                /\ now >= t.deadline
                /\ timers' = (timers \ {t}) \cup {[t EXCEPT !.phase = "writing"]}
    ]_vars

\* a debounced write has just failed and left the document as it was
C15_Witness ==
  /\ lastOp.op = "auto-save"
  /\ lastOp.result = "failed"
  /\ store[lastOp.documentId].content # lastOp.content
  /\ \A t \in timers : t.documentId # lastOp.documentId

\* C16: a cursor-move(D, position) of a connection with a Presence in D's
\* room reaches every other member of the room exactly once, carrying the
\* userId, displayName and color of the sender's Presence and the position,
\* and reaches neither the sender nor a connection outside the room; a
\* cursor-move of a connection without a Presence in D's room emits nothing;
\* in both cases no state changes.
C16_CursorRelay ==
  [][ LET s == lastOp'.socket
          d == lastOp'.documentId
          moves == {i \in 1..Len(emitted') : emitted'[i].ev = "cursor-move"}
      IN lastOp'.op = "cursor-move" =>
           /\ UNCHANGED << conn, documentRooms, ioRooms, autoSaveTimers, timers,
                           store, joinsInFlight, savesInFlight >>
           /\ s \in Members(d) =>
                /\ moves = 1..Len(emitted')
                /\ \A i \in moves :
                     /\ emitted'[i].payload.userId = documentRooms[d][s].userId
                     /\ emitted'[i].payload.userName = documentRooms[d][s].userName
                     /\ emitted'[i].payload.color = documentRooms[d][s].color
                     /\ emitted'[i].payload.position \in Positions
                /\ \A m \in Sockets :
                     Cardinality({i \in moves : emitted'[i].to = m}) =
                       IF m \in Members(d) \ {s} THEN 1 ELSE 0
           /\ s \notin Members(d) => emitted' = << >>
    ]_vars

\* the user named by the token a handshake presents: auth.token when given,
\* else the second word of the Authorization header
PresentedSubject(hs) ==
  LET token == IF hs.token # "" THEN hs.token
               ELSE IF Len(hs.authorization) >= 2 THEN hs.authorization[2]
               ELSE ""
  IN IF token = "jwt-u1" THEN "u1" ELSE IF token = "jwt-u2" THEN "u2" ELSE None

\* the events a handler relays on behalf of the connection it serves
Relayed == {"text-change", "cursor-move", "user-joined", "user-left"}

\* C17: every relayed text-change, cursor-move, user-joined and user-left
\* carries the userId attached to the sending connection at authentication,
\* whatever the payload the client sent, and the userId attached to a
\* connection never changes.
C17_VerifiedUserId ==
  [][ /\ \A s \in Sockets : conn[s].user # None => conn'[s].user = conn[s].user
      /\ (lastOp'.op = "connection" /\ lastOp'.result = "admitted") =>
           conn'[lastOp'.socket].user = PresentedSubject(lastOp'.handshake)
      /\ \A i \in 1..Len(emitted') :
           emitted'[i].ev \in Relayed =>
             /\ lastOp'.socket \in Sockets
             /\ emitted'[i].payload.userId = conn[lastOp'.socket].user
    ]_vars

\* a text-change of a connection of u2 has reached a connection of u1
C17_Witness ==
  /\ lastOp.op = "text-change"
  /\ \E i \in 1..Len(emitted) :
       /\ emitted[i].payload.userId = "u2"
       /\ conn[emitted[i].to].user = "u1"

\* the results of a join-document or save-document in whose handling an
\* error was raised: the store call rejected, or the handler threw on its
\* payload
ErrorResults == {"failed", "threw"}

\* C18: an error raised while a join-document or save-document is handled
\* (the store failing, or the payload malformed or missing) becomes exactly
\* one event for the requesting connection, error for a join and
\* document-saved{success: false} for a save; the server keeps running, and
\* no connection, room, presence or pending save changes.
C18_ErrorsCaught ==
  [][ LET s == lastOp'.socket
      IN ( /\ lastOp'.op \in {"join-document", "save-document"}
           /\ lastOp'.result \in ErrorResults )
         => /\ Len(emitted') = 1
            /\ emitted'[1].to = s
            /\ lastOp'.op = "join-document" => emitted'[1].ev = "error"
            /\ lastOp'.op = "save-document" =>
                 /\ emitted'[1].ev = "document-saved"
                 /\ emitted'[1].payload = [success |-> FALSE]
            /\ httpServer' = "listening"
            /\ UNCHANGED << conn, documentRooms, ioRooms, autoSaveTimers, timers >>
    ]_vars

\* C19: the text-change and cursor-move events of a sender S reach a peer P
\* of the same room in the order in which the server received them: the step
\* that receives such an event of S emits exactly one packet to P, which is
\* that event, and no other step emits a text-change or cursor-move, so none
\* is held back, merged with another, batched or dropped.
C19_SenderOrder ==
  [][ LET S == lastOp'.socket
          d == lastOp'.documentId
          edits == {"text-change", "cursor-move"}
      IN /\ \A i \in 1..Len(emitted') :
              emitted'[i].ev \in edits =>
                /\ lastOp'.op = emitted'[i].ev
                /\ emitted'[i].to # S
                /\ emitted'[i].ev = "text-change" =>
                     emitted'[i].payload.content = lastOp'.content
         /\ (lastOp'.op \in edits /\ S \in Members(d)) =>
              \A P \in Members(d) \ {S} :
                Cardinality({i \in 1..Len(emitted') : emitted'[i].to = P}) = 1
    ]_vars

\* the last step completed a store write: an explicit save or a debounced one
WriteCompleted(op) ==
  /\ op.op \in {"save-document", "auto-save"}
  /\ op.result = "saved"

\* C20: an explicit save-document leaves the PendingSave registry and the
\* timers as they are, so a debounce timer pending for the document stays
\* armed with its own content; every completed write of an existing
\* document, explicit or debounced, stores its content and nothing else
\* changes the stored content, so the document holds the content of the
\* write performed last.
C20_SaveKeepsPendingSave ==
  [][ /\ lastOp'.op = "save-document" => UNCHANGED << autoSaveTimers, timers >>
      /\ \A d \in DocIds :
           IF WriteCompleted(lastOp') /\ lastOp'.documentId = d /\ store[d].exists
           THEN store'[d].content = lastOp'.content
           ELSE store'[d].content = store[d].content
    ]_vars

\* an explicit save was written while a debounce timer for the same document
\* stays armed with other content
C20_Witness ==
  /\ lastOp.op = "save-document"
  /\ lastOp.result = "saved"
  /\ store[lastOp.documentId].content = lastOp.content
  /\ \E t \in Armed(lastOp.documentId) :
       /\ t.content # lastOp.content
       /\ autoSaveTimers[lastOp.documentId].timeout = t.id

\* C22: a debounce timer that fires for document D writes the content the
\* PendingSave entry of D holds at that moment, which is the content of the
\* most recent text-change for D; a timer never writes the content of an
\* earlier text-change; the entry of D stays in the registry while the write
\* is in flight and when it fails, and is removed when it succeeded.
C22_TimerWritesLatest ==
  [][ LET d == lastOp'.documentId
      IN lastOp'.op = "auto-save" =>
           /\ lastOp'.result = "fired" =>
                /\ d \in DOMAIN autoSaveTimers
                /\ autoSaveTimers[d].content = lastOp'.content
                /\ burst[d].content = lastOp'.content
                /\ autoSaveTimers' = autoSaveTimers
           /\ lastOp'.result = "saved" =>
                /\ burst[d].content = lastOp'.content
                /\ d \notin DOMAIN autoSaveTimers'
           /\ lastOp'.result = "failed" => autoSaveTimers' = autoSaveTimers
    ]_vars

\* C23: the completion of an older write removes only the PendingSave entry
\* it flushed, also when a text-change arrived while that write was in
\* flight: every armed debounce timer of a document is the timer the
\* registry entry of that document refers to, holding the same content.
C23_ArmedTimerRegistered ==
  \A d \in DocIds : \A t \in Armed(d) :
    /\ d \in DOMAIN autoSaveTimers
    /\ autoSaveTimers[d].timeout = t.id
    /\ autoSaveTimers[d].content = t.content

\* C24: the PendingSave entry of a document holds the content of the most
\* recent text-change received for it, whichever connection sent it; once
\* every timer of the document has fired and written, with no disconnect,
\* explicit save or failed write, the stored content is the content of the
\* last text-change received for the document.
C24_LastEditWins ==
  \A d \in DocIds :
    /\ d \in DOMAIN autoSaveTimers => autoSaveTimers[d].content = burst[d].content
    /\ (burst[d].n > 0 /\ \A t \in timers : t.documentId # d) =>
         store[d].content = burst[d].content

\* the events and the timer callback that name one document
PerDocument == {"join-document", "leave-document", "text-change", "cursor-move",
                "save-document", "auto-save"}

\* C25: a join-document, leave-document, text-change, cursor-move or
\* save-document for a document D1, and the callback of a debounce timer of
\* D1, leave the room and roster, the transport room, the PendingSave entry,
\* the timers and the stored document of every other document D2 unchanged.
C25_OtherDocumentsUntouched ==
  [][ (lastOp'.op \in PerDocument /\ lastOp'.documentId \in DocIds) =>
        \A d2 \in DocIds \ {lastOp'.documentId} :
          /\ d2 \in DOMAIN documentRooms' <=> d2 \in DOMAIN documentRooms
          /\ d2 \in DOMAIN documentRooms => documentRooms'[d2] = documentRooms[d2]
          /\ ioRooms'[d2] = ioRooms[d2]
          /\ d2 \in DOMAIN autoSaveTimers' <=> d2 \in DOMAIN autoSaveTimers
          /\ d2 \in DOMAIN autoSaveTimers => autoSaveTimers'[d2] = autoSaveTimers[d2]
          /\ {t \in timers' : t.documentId = d2} = {t \in timers : t.documentId = d2}
          /\ store'[d2] = store[d2]
    ]_vars

\* a text-change for one document while another has a pending save
C25_Witness ==
  /\ lastOp.op = "text-change"
  /\ \E d2 \in DOMAIN autoSaveTimers \ {lastOp.documentId} :
       \E t \in Armed(d2) : autoSaveTimers[d2].timeout = t.id

\* C26: a connection that joins document D again without leaving still has
\* exactly one Presence in D's room, under its connectionId: the member set
\* does not grow and the other entries are kept, the entry carries the
\* displayName supplied with this join and a color of the palette, and one
\* leave-document or disconnect removes the connection from the roster and
\* from the transport room.
C26_RejoinOverwrites ==
  [][ LET s == lastOp'.socket
          d == lastOp'.documentId
      IN /\ (lastOp'.op = "join-document" /\ lastOp'.result = "joined") =>
              /\ d \in DOMAIN documentRooms'
              /\ s \in DOMAIN documentRooms'[d]
              /\ documentRooms'[d][s].socketId = s
              /\ \E j \in joinsInFlight \ joinsInFlight' :
                    documentRooms'[d][s].userName = j.userName
              /\ documentRooms'[d][s].color \in generateUserColor
              /\ (d \in DOMAIN documentRooms /\ s \in DOMAIN documentRooms[d]) =>
                    /\ DOMAIN documentRooms'[d] = DOMAIN documentRooms[d]
                    /\ \A x \in DOMAIN documentRooms[d] \ {s} :
                          documentRooms'[d][x] = documentRooms[d][x]
         /\ lastOp'.op = "leave-document" =>
              /\ d \in DOMAIN documentRooms' => s \notin DOMAIN documentRooms'[d]
              /\ s \notin ioRooms'[d]
         /\ lastOp'.op = "disconnect" =>
              \A x \in DocIds :
                /\ x \in DOMAIN documentRooms' => s \notin DOMAIN documentRooms'[x]
                /\ s \notin ioRooms'[x]
    ]_vars

\* a member joined again under another name and is the room's only member
C26_Witness ==
  /\ lastOp.op = "join-document"
  /\ lastOp.result = "joined"
  /\ lastOp.content = "Ann"
  /\ documentRooms[lastOp.documentId][lastOp.socket].userName = "Bob"
  /\ DOMAIN documentRooms[lastOp.documentId] = {lastOp.socket}

\* C27: a text-change for document D from a connection that holds no
\* Presence in D's room relays nothing and changes neither the PendingSave
\* registry, the timers nor the store; a save-document for D from a
\* connection whose user has no access to D (it never passed the join check)
\* leaves the stored document unchanged.
C27_OnlyMembersEdit ==
  [][ LET s == lastOp'.socket
          d == lastOp'.documentId
      IN /\ (lastOp'.op = "text-change" /\ s \notin Members(d)) =>
              /\ emitted' = << >>
              /\ autoSaveTimers' = autoSaveTimers
              /\ timers' = timers
              /\ store' = store
         /\ ( /\ lastOp'.op = "save-document"
              /\ lastOp'.result # "threw"
              /\ NoAccess(d, conn[s].user) ) =>
              store' = store
    ]_vars

\* C28: in every state, for every document the connections subscribed to
\* the transport room are exactly the connections of the room's member
\* mapping in the Room Directory.
C28_TransportMatchesRoster ==
  \A d \in DocIds : ioRooms[d] = Members(d)

\* the outcomes of the invocations of operation() so far
Invocations ==
  Len(gemini.outcomes) + (IF gemini.pc = "calling" THEN 1 ELSE 0)

\* an error the claim calls not retryable
NotRetryable(e) ==
  /\ "status" \in DOMAIN e => e.status # 429 /\ e.status < 500
  /\ "message" \in DOMAIN e =>
       ~includes(e.message, quota) /\ ~includes(e.message, rate)

\* C30: retryWithBackoff invokes the operation at most 3 times; the first
\* successful result is returned without a further attempt; an error that is
\* not retryable is rethrown right after the attempt that raised it; after
\* the third failed attempt the last error is rethrown with no further wait;
\* the wait before attempt k+1 is min(1000 * 2^(k-1), 10000) ms.
C30_RetryTerminates ==
  LET outs == gemini.outcomes
      n == Len(outs)
  IN /\ Invocations <= 3
     /\ \A k \in 1..n :
          /\ outs[k].ok => k = n /\ gemini.pc = "returned"
          /\ (~outs[k].ok /\ NotRetryable(outs[k].error)) =>
               k = n /\ gemini.pc = "threw"
          /\ (~outs[k].ok /\ k = 3) =>
               /\ gemini.pc = "threw"
               /\ Len(gemini.waits) = 2
     /\ gemini.pc = "returned" => n >= 1 /\ outs[n].ok
     /\ gemini.pc = "threw" => n >= 1 /\ ~outs[n].ok
     /\ Len(gemini.waits) <= Invocations
     /\ gemini.pc = "calling" => Len(gemini.waits) = Invocations - 1
     /\ \A k \in 1..Len(gemini.waits) :
          LET pow == 1000 * 2 ^ (k - 1)
          IN gemini.waits[k] = IF pow < 10000 THEN pow ELSE 10000

\* the third attempt failed with a retryable error after two waits
C30_Witness ==
  /\ Len(gemini.outcomes) = 3
  /\ ~gemini.outcomes[3].ok
  /\ ~NotRetryable(gemini.outcomes[3].error)
  /\ gemini.waits = << 1000, 2000 >>
  /\ gemini.pc = "threw"

\* C29: POST /:id/share by the owner returns the existing share token when
\* there is one and generates one only when there is none, so every token a
\* share request ever returned for a document is the token of that document
\* and resolves it through GET /share/:token, also for concurrent requests; a
\* non-owner is answered 403 and never generates or changes a token.
C29_ShareTokenStable ==
  /\ \A a \in shares.responses :
       (a.route = "share" /\ a.status = 200) =>
         /\ a.user = DocOwner[a.documentId]
         /\ shares.token[a.documentId] = a.shareToken
         /\ a.documentId \in findOneByShareToken(shares.token, a.shareToken)
  /\ \A a \in shares.responses :
       (a.route = "share" /\ a.user # DocOwner[a.documentId]) =>
         a.status \in {403, 500} /\ a.shareToken = None
  /\ \A r \in shares.inFlight :
       r.pc = "saving" => r.user = DocOwner[r.documentId]

\* C21: a register request whose email belongs to a registered user is
\* answered 400 with a message containing 'already exists' and creates no
\* user (unless the database was unavailable), so for every email at most
\* one user exists and at most one request is answered 201.
C21_OneUserPerEmail ==
  /\ \A a \in auth.responses :
       (a.registered /\ a.outcome # "rejected") =>
         /\ a.status = 400
         /\ a.message = "User with this email already exists"
         /\ \A u \in auth.users : u.id # a.id
  /\ \A e \in Emails :
       /\ Cardinality(findOneByEmail(auth.users, e)) <= 1
       /\ Cardinality({a \in auth.responses : a.email = e /\ a.status = 201}) <= 1

====
